---------------------------- MODULE Spec2Model ----------------------------
(***************************************************************************)
(* A model of extract.py: the field-extraction engine that reads a fixed   *)
(* schema of labelled fields out of the tables and the text lines of PDF   *)
(* pages, reconciles them per document, and sanitizes the assembled table. *)
(*                                                                         *)
(* A Python string is a sequence of characters, each character a TLA+      *)
(* string of length one; the three characters that have no printable form *)
(* are written "TAB", "NL" and "NBSP" (U+00A0).  Python's None (and        *)
(* pandas' NA) is the value None, which is no string.                      *)
(***************************************************************************)
EXTENDS Naturals, Sequences, FiniteSets, TLC

(***************************************************************************)
(* Bounds of the model.                                                    *)
(***************************************************************************)
\* Longest generated string handed to a pure function.
MaxLen == 3
\* Most pages of one document.
MaxPages == 2
\* Most documents of one batch.
MaxDocs == 3

(***************************************************************************)
(* Characters and the character classes of the regular expressions.        *)
(***************************************************************************)
None == <<"<None>">>

UpperSeq == <<"A","B","C","D","E","F","G","H","I","J","K","L","M",
              "N","O","P","Q","R","S","T","U","V","W","X","Y","Z">>
LowerSeq == <<"a","b","c","d","e","f","g","h","i","j","k","l","m",
              "n","o","p","q","r","s","t","u","v","w","x","y","z">>
UpperCh == {UpperSeq[i] : i \in 1..26}
LowerCh == {LowerSeq[i] : i \in 1..26}
DigitCh == {"0","1","2","3","4","5","6","7","8","9"}
\* \w
WordCh == UpperCh \cup LowerCh \cup DigitCh \cup {"_"}
\* [ \t]
BlankCh == {" ", "TAB"}
\* \s, and what str.strip() removes (U+00A0 is whitespace to both)
SpaceCh == {" ", "TAB", "NL", "NBSP"}

\* The function f as a table of its values: TLC evaluates a function constructor
\* anew at each application, and @@ evaluates it once.
Eager(f) == f @@ <<>>

\* str.lower() of one character
lowerCh(c) ==
    IF c \in UpperCh THEN LowerSeq[CHOOSE i \in 1..26 : UpperSeq[i] = c] ELSE c

\* str.lower()
lower(s) == Eager([i \in 1..Len(s) |-> lowerCh(s[i])])

\* the least and the greatest element of a non-empty set of numbers
Least(S) == CHOOSE x \in S : \A y \in S : x <= y
Greatest(S) == CHOOSE x \in S : \A y \in S : y <= x

\* how many characters of cls s holds from position i on, without a gap
runLength(s, i, cls) ==
    LET stops == {j \in i..Len(s) : s[j] \notin cls}
    IN  IF i > Len(s) THEN 0
        ELSE IF stops = {} THEN Len(s) - i + 1
        ELSE Least(stops) - i

\* the string without the run of characters of cls that ends it
dropTrailing(s, cls) ==
    LET stays == {j \in 1..Len(s) : s[j] \notin cls}
    IN  IF stays = {} THEN <<>> ELSE SubSeq(s, 1, Greatest(stays))

\* str.strip()
strip(s) ==
    LET stays == {j \in 1..Len(s) : s[j] \notin SpaceCh}
    IN  IF stays = {} THEN <<>> ELSE SubSeq(s, Least(stays), Greatest(stays))

\* re.sub(class+, " ", s): every maximal run of characters of cls becomes one space
subRuns(s, cls) ==
    LET starts == SelectSeq(Eager([i \in 1..Len(s) |-> i]),
                            LAMBDA i : ~(s[i] \in cls /\ i > 1 /\ s[i-1] \in cls))
    IN  Eager([j \in 1..Len(starts) |->
                  IF s[starts[j]] \in cls THEN " " ELSE s[starts[j]]])

\* re.sub(class+ "$", "", s): "$" is the end of the string, and also the
\* place before a newline that ends the string
subTrailing(s, cls) ==
    IF s # <<>> /\ s[Len(s)] = "NL" /\ "NL" \notin cls
    THEN dropTrailing(SubSeq(s, 1, Len(s) - 1), cls) \o <<"NL">>
    ELSE dropTrailing(s, cls)

\* s.startswith(p)
startswith(s, p) == Len(s) >= Len(p) /\ SubSeq(s, 1, Len(p)) = p

(***************************************************************************)
(* Normalización y utilidades                                              *)
(***************************************************************************)
norm(s) ==
    IF s = None THEN <<>>
    ELSE LET s1 == Eager([i \in 1..Len(s) |-> IF s[i] = "NBSP" THEN " " ELSE s[i]])
             s2 == subRuns(s1, BlankCh)
         IN  strip(s2)

norm_label(s) ==
    LET s1 == lower(norm(s))
        s2 == subTrailing(s1, {":"})
    IN  subRuns(s2, SpaceCh)

NoValueToDisplay ==
    <<"n","o"," ","v","a","l","u","e"," ","t","o"," ","d","i","s","p","l","a","y">>

is_nullish(value) ==
    \/ value = None
    \/ value = <<>>
    \/ strip(value) = <<>>
    \/ startswith(lower(strip(value)), NoValueToDisplay)


(***************************************************************************)
(* Validadores por tipo                                                    *)
(***************************************************************************)
\* s[i] exists and is a character of cls
at(s, i, cls) == i >= 1 /\ i <= Len(s) /\ s[i] \in cls

\* the n characters of s from i on exist and are characters of cls
run(s, i, n, cls) == \A j \in i..(i + n - 1) : at(s, j, cls)

\* \b between s[i] and s[i+1] (i = 0: before the string; i = Len(s): after it)
wordBoundary(s, i) == at(s, i, WordCh) # at(s, i + 1, WordCh)

\* re.fullmatch(cls+, s)
fullmatchPlus(s, cls) == s # <<>> /\ \A i \in 1..Len(s) : s[i] \in cls

MonthNames ==
    { <<"j","a","n">>, <<"f","e","b">>, <<"m","a","r">>, <<"a","p","r">>,
      <<"m","a","y">>, <<"j","u","n">>, <<"j","u","l">>, <<"a","u","g">>,
      <<"s","e","p">>, <<"s","e","p","t">>, <<"o","c","t">>, <<"n","o","v">>,
      <<"d","e","c">> }

DateSepCh == {"-", "/"}

\* \b\d{1,2}[-/](?:Jan|...|Dec)[a-z]*[-/]\d{4}\b at position i, ignoring case
dateNamedAt(s, i) ==
    \E a \in 1..2 :
        /\ wordBoundary(s, i - 1)
        /\ run(s, i, a, DigitCh)
        /\ at(s, i + a, DateSepCh)
        /\ \E m \in MonthNames :
               LET p == i + a + 1 + Len(m)  \* the place after the month's abbreviation
               IN  /\ p - 1 <= Len(s)
                   /\ lower(SubSeq(s, i + a + 1, p - 1)) = m
                   /\ \E n \in 0..(Len(s) - p + 1) :
                          /\ run(s, p, n, UpperCh \cup LowerCh)
                          /\ at(s, p + n, DateSepCh)
                          /\ run(s, p + n + 1, 4, DigitCh)
                          /\ wordBoundary(s, p + n + 4)

\* \b\d{1,2}[-/]\d{1,2}[-/]\d{2,4}\b at position i
dateNumericAt(s, i) ==
    \E a \in 1..2 : \E b \in 1..2 : \E c \in 2..4 :
        /\ wordBoundary(s, i - 1)
        /\ run(s, i, a, DigitCh)
        /\ at(s, i + a, DateSepCh)
        /\ run(s, i + a + 1, b, DigitCh)
        /\ at(s, i + a + 1 + b, DateSepCh)
        /\ run(s, i + a + b + 2, c, DigitCh)
        /\ wordBoundary(s, i + a + b + c + 1)

\* \b\d{4}[-/]\d{2}[-/]\d{2}\b at position i
dateIsoAt(s, i) ==
    /\ wordBoundary(s, i - 1)
    /\ run(s, i, 4, DigitCh)
    /\ at(s, i + 4, DateSepCh)
    /\ run(s, i + 5, 2, DigitCh)
    /\ at(s, i + 7, DateSepCh)
    /\ run(s, i + 8, 2, DigitCh)
    /\ wordBoundary(s, i + 9)

\* any(re.search(pat, s) for pat in DATE_PATTERNS)
DATE_PATTERNS(s) ==
    \E i \in 1..Len(s) : dateNamedAt(s, i) \/ dateNumericAt(s, i) \/ dateIsoAt(s, i)

is_date(s) ==
    IF is_nullish(s) THEN FALSE ELSE DATE_PATTERNS(norm(s))

is_digits(s) ==
    IF is_nullish(s) THEN FALSE ELSE fullmatchPlus(s, DigitCh)

is_year(s) ==
    IF is_nullish(s) THEN FALSE
    ELSE /\ Len(s) = 4
         /\ SubSeq(s, 1, 2) \in { <<"1","9">>, <<"2","0">> }
         /\ run(s, 3, 2, DigitCh)

is_alnum(s) ==
    IF is_nullish(s) THEN FALSE
    ELSE fullmatchPlus(s, UpperCh \cup LowerCh \cup DigitCh \cup {"-", "_"})

is_age(s) ==
    IF is_nullish(s) THEN FALSE ELSE \E i \in 1..Len(s) : s[i] \in DigitCh

is_text(s) ==
    IF is_nullish(s) THEN FALSE ELSE TRUE

VALIDATORS(type, s) ==
    CASE type = "date"   -> is_date(s)
      [] type = "digits" -> is_digits(s)
      [] type = "year"   -> is_year(s)
      [] type = "alnum"  -> is_alnum(s)
      [] type = "age"    -> is_age(s)
      [] type = "text"   -> is_text(s)

(***************************************************************************)
(* ESQUEMA (alias + TIPO ESPERADO)                                         *)
(* An entry of the dictionary: its key, the key's characters, the aliases  *)
(* in declared order, and the expected type.  The sequence keeps the       *)
(* dictionary's order.                                                     *)
(***************************************************************************)
FIELD_SCHEMA ==
    <<
      [ col      |-> "Site Number",
        chars    |-> <<"S","i","t","e"," ","N","u","m","b","e","r">>,
        variants |-> <<
            \* Site Number
            <<"S","i","t","e"," ","N","u","m","b","e","r">>,
            \* Site No
            <<"S","i","t","e"," ","N","o">>,
            \* Site ID
            <<"S","i","t","e"," ","I","D">>,
            \* Derived Site ID
            <<"D","e","r","i","v","e","d"," ","S","i","t","e"," ","I","D">> >>,
        type     |-> "digits" ],
      [ col      |-> "Subject",
        chars    |-> <<"S","u","b","j","e","c","t">>,
        variants |-> <<
            \* Subject
            <<"S","u","b","j","e","c","t">>,
            \* Subject ID
            <<"S","u","b","j","e","c","t"," ","I","D">> >>,
        type     |-> "alnum" ],
      [ col      |-> "Birth Year",
        chars    |-> <<"B","i","r","t","h"," ","Y","e","a","r">>,
        variants |-> <<
            \* Birth Year
            <<"B","i","r","t","h"," ","Y","e","a","r">>,
            \* Year of Birth
            <<"Y","e","a","r"," ","o","f"," ","B","i","r","t","h">>,
            \* YOB
            <<"Y","O","B">> >>,
        type     |-> "year" ],
      [ col      |-> "Age",
        chars    |-> <<"A","g","e">>,
        variants |-> <<
            \* Age
            <<"A","g","e">> >>,
        type     |-> "age" ],
      [ col      |-> "Sex Reported at Birth",
        chars    |-> <<"S","e","x"," ","R","e","p","o","r","t","e","d"," ","a","t"," ","B","i","r","t","h">>,
        variants |-> <<
            \* Sex Reported at Birth
            <<"S","e","x"," ","R","e","p","o","r","t","e","d"," ","a","t"," ","B","i","r","t","h">> >>,
        type     |-> "text" ],
      [ col      |-> "First Informed Consent Date",
        chars    |-> <<"F","i","r","s","t"," ","I","n","f","o","r","m","e","d"," ","C","o","n","s","e","n","t"," ","D","a","t","e">>,
        variants |-> <<
            \* First Informed Consent Date
            <<"F","i","r","s","t"," ","I","n","f","o","r","m","e","d"," ","C","o","n","s","e","n","t"," ","D","a","t","e">>,
            \* Informed Consent Date
            <<"I","n","f","o","r","m","e","d"," ","C","o","n","s","e","n","t"," ","D","a","t","e">>,
            \* First Consent Date
            <<"F","i","r","s","t"," ","C","o","n","s","e","n","t"," ","D","a","t","e">> >>,
        type     |-> "date" ],
      [ col      |-> "Randomization/Allocation Date",
        chars    |-> <<"R","a","n","d","o","m","i","z","a","t","i","o","n","/","A","l","l","o","c","a","t","i","o","n"," ","D","a","t","e">>,
        variants |-> <<
            \* Randomization/Allocation Date
            <<"R","a","n","d","o","m","i","z","a","t","i","o","n","/","A","l","l","o","c","a","t","i","o","n"," ","D","a","t","e">>,
            \* Randomization Date
            <<"R","a","n","d","o","m","i","z","a","t","i","o","n"," ","D","a","t","e">>,
            \* Allocation Date
            <<"A","l","l","o","c","a","t","i","o","n"," ","D","a","t","e">>,
            \* Randomization / Allocation Date
            <<"R","a","n","d","o","m","i","z","a","t","i","o","n"," ","/"," ","A","l","l","o","c","a","t","i","o","n"," ","D","a","t","e">> >>,
        type     |-> "date" ],
      [ col      |-> "Randomization/Allocation Number",
        chars    |-> <<"R","a","n","d","o","m","i","z","a","t","i","o","n","/","A","l","l","o","c","a","t","i","o","n"," ","N","u","m","b","e","r">>,
        variants |-> <<
            \* Randomization/Allocation Number
            <<"R","a","n","d","o","m","i","z","a","t","i","o","n","/","A","l","l","o","c","a","t","i","o","n"," ","N","u","m","b","e","r">>,
            \* Randomization Number
            <<"R","a","n","d","o","m","i","z","a","t","i","o","n"," ","N","u","m","b","e","r">>,
            \* Allocation Number
            <<"A","l","l","o","c","a","t","i","o","n"," ","N","u","m","b","e","r">>,
            \* Randomization / Allocation Number
            <<"R","a","n","d","o","m","i","z","a","t","i","o","n"," ","/"," ","A","l","l","o","c","a","t","i","o","n"," ","N","u","m","b","e","r">> >>,
        type     |-> "digits" ],
      [ col      |-> "Cohort",
        chars    |-> <<"C","o","h","o","r","t">>,
        variants |-> <<
            \* Cohort
            <<"C","o","h","o","r","t">>,
            \* Cohort Assignment
            <<"C","o","h","o","r","t"," ","A","s","s","i","g","n","m","e","n","t">> >>,
        type     |-> "text" ],
      [ col      |-> "Date of Component ID Assignment",
        chars    |-> <<"D","a","t","e"," ","o","f"," ","C","o","m","p","o","n","e","n","t"," ","I","D"," ","A","s","s","i","g","n","m","e","n","t">>,
        variants |-> <<
            \* Date of Component ID Assignment
            <<"D","a","t","e"," ","o","f"," ","C","o","m","p","o","n","e","n","t"," ","I","D"," ","A","s","s","i","g","n","m","e","n","t">>,
            \* Component ID Assignment Date
            <<"C","o","m","p","o","n","e","n","t"," ","I","D"," ","A","s","s","i","g","n","m","e","n","t"," ","D","a","t","e">>,
            \* Date of Component Assignment
            <<"D","a","t","e"," ","o","f"," ","C","o","m","p","o","n","e","n","t"," ","A","s","s","i","g","n","m","e","n","t">> >>,
        type     |-> "date" ],
      [ col      |-> "Component ID",
        chars    |-> <<"C","o","m","p","o","n","e","n","t"," ","I","D">>,
        variants |-> <<
            \* Component ID
            <<"C","o","m","p","o","n","e","n","t"," ","I","D">>,
            \* Component Identifier
            <<"C","o","m","p","o","n","e","n","t"," ","I","d","e","n","t","i","f","i","e","r">>,
            \* ComponentID
            <<"C","o","m","p","o","n","e","n","t","I","D">> >>,
        type     |-> "digits" ]
    >>

\* schema.keys(), in order, and as a set
ColumnOrder == [i \in 1..Len(FIELD_SCHEMA) |-> FIELD_SCHEMA[i].col]
Columns == {FIELD_SCHEMA[i].col : i \in 1..Len(FIELD_SCHEMA)}

\* schema[col]
SchemaOf(col) == FIELD_SCHEMA[CHOOSE i \in 1..Len(FIELD_SCHEMA) : FIELD_SCHEMA[i].col = col]

\* {k: None for k in schema.keys()}
AllNone == Eager([k \in Columns |-> None])

(***************************************************************************)
(* A page of a PDF, as pdfplumber hands it to the program:                 *)
(*   tables_raise  whether page.extract_tables() raises                    *)
(*   tables        what it returns otherwise: a sequence of tables, each a *)
(*                 sequence of rows, each a sequence of cells (a string or *)
(*                 None); <<>> stands for an empty or missing row          *)
(*   text_raise    the exception page.extract_text() raises, or None       *)
(*   text          what it returns otherwise (a string or None)            *)
(***************************************************************************)
Page(tr, tbls, xr, txt) ==
    [tables_raise |-> tr, tables |-> tbls, text_raise |-> xr, text |-> txt]

(***************************************************************************)
(* Matching de etiqueta                                                    *)
(***************************************************************************)
label_matches(cell_text, variants) ==
    LET t == norm_label(cell_text)
    IN  \E i \in 1..Len(variants) : t = norm_label(variants[i])

(***************************************************************************)
(* Extracción desde TABLAS                                                 *)
(***************************************************************************)
same_as_any_variant(value, variants) ==
    LET vv == norm_label(value)
    IN  \E i \in 1..Len(variants) : vv = norm_label(variants[i])

HeaderTokens ==
    { <<"i","t","e","m">>, <<"f","i","e","l","d">>,
      <<"p","a","r","a","m","e","t","e","r">> }

\* [norm(c) for c in row if c is not None]
CellsOf(row) ==
    LET kept == SelectSeq(row, LAMBDA c : c # None)
    IN  Eager([i \in 1..Len(kept) |-> norm(kept[i])])

\* next((c for c in cells if c), None)
FirstNonEmpty(cells) ==
    IF \E i \in 1..Len(cells) : cells[i] # <<>>
    THEN cells[CHOOSE i \in 1..Len(cells) :
                   cells[i] # <<>> /\ \A j \in 1..(i - 1) : cells[j] = <<>>]
    ELSE None

\* next((c for c in reversed(cells) if c), None)
LastNonEmpty(cells) ==
    IF \E i \in 1..Len(cells) : cells[i] # <<>>
    THEN cells[CHOOSE i \in 1..Len(cells) :
                   cells[i] # <<>> /\ \A j \in (i + 1)..Len(cells) : cells[j] = <<>>]
    ELSE None

\* TableGuard without the check against the field's aliases
TableGuardLabelOnly(label_cell, value_cell, variants) ==
    norm_label(value_cell) = norm_label(label_cell)

\* The guards of one (label, value) pair of a row: the value is the row's own
\* label, or one of the field's aliases.
TableGuard(label_cell, value_cell, variants) ==
    \/ norm_label(value_cell) = norm_label(label_cell)
    \/ same_as_any_variant(value_cell, variants)

\* The body of "for col_name, spec in schema.items()" for one row: what found
\* holds for col_name after it.
TableCell(found, col_name, label_cell, value_cell) ==
    LET spec == SchemaOf(col_name)
        val  == norm(value_cell)
    IN  IF found[col_name] # None THEN found[col_name]
        ELSE IF /\ label_matches(label_cell, spec.variants)
                /\ ~TableGuard(label_cell, value_cell, spec.variants)
                /\ ~is_nullish(val)
                /\ VALIDATORS(spec.type, val)
             THEN val
             ELSE None

\* The body of "for row in tbl": found after the row.
TableRow(found, row) ==
    IF row = <<>> THEN found
    ELSE LET cells == CellsOf(row)
         IN  IF Len(cells) < 1 THEN found
             ELSE IF lower(norm(cells[1])) \in HeaderTokens THEN found
             ELSE LET label_cell == FirstNonEmpty(cells)
                      value_cell == LastNonEmpty(cells)
                  IN  IF label_cell = None \/ value_cell = None THEN found
                      ELSE Eager([k \in Columns |->
                               TableCell(found, k, label_cell, value_cell)])

\* the rows of all tables, in the order the two loops visit them
RECURSIVE RowsOf(_)
RowsOf(tables) ==
    IF tables = <<>> THEN <<>> ELSE Head(tables) \o RowsOf(Tail(tables))

RECURSIVE TableRows(_, _)
TableRows(found, rows) ==
    IF rows = <<>> THEN found
    ELSE TableRows(TableRow(found, Head(rows)), Tail(rows))

extract_from_tables(page) ==
    LET tables == IF page.tables_raise THEN <<>> ELSE page.tables
    IN  TableRows(AllNone, RowsOf(tables))

(***************************************************************************)
(* Extracción por LÍNEAS (fallback)                                        *)
(***************************************************************************)
\* str.splitlines(), for the line break "\n"
RECURSIVE splitlines(_)
splitlines(text) ==
    IF text = <<>> THEN <<>>
    ELSE IF \E i \in 1..Len(text) : text[i] = "NL"
         THEN LET n == CHOOSE i \in 1..Len(text) :
                           text[i] = "NL" /\ \A j \in 1..(i - 1) : text[j] # "NL"
              IN  <<SubSeq(text, 1, n - 1)>> \o splitlines(SubSeq(text, n + 1, Len(text)))
         ELSE <<text>>

\* What "(.+)$" captures when it has to match all of r: "." is any character
\* but a newline, "$" the end of r or the place before the newline that ends r.
\* None when it does not match.
CaptureRest(r) ==
    IF r # <<>> /\ \A i \in 1..Len(r) : r[i] # "NL" THEN r
    ELSE IF /\ Len(r) >= 2
            /\ r[Len(r)] = "NL"
            /\ \A i \in 1..(Len(r) - 1) : r[i] # "NL"
         THEN SubSeq(r, 1, Len(r) - 1)
         ELSE None

\* What "[:\s]*(.+)$" captures from position i of ln on: the run of colons and
\* whitespace is taken as long as the rest still matches (greedy, giving back).
CaptureAfterSeparators(ln, i) ==
    LET most == runLength(ln, i, {":"} \cup SpaceCh)
        fits == {k \in 0..most : CaptureRest(SubSeq(ln, i + k, Len(ln))) # None}
    IN  IF fits = {} THEN None
        ELSE LET k == CHOOSE x \in fits : \A y \in fits : y <= x
             IN  CaptureRest(SubSeq(ln, i + k, Len(ln)))

\* re.match(r"^\s*" + re.escape(label) + r"\b[:\s]*(.+)$", ln, re.IGNORECASE):
\* group 1 of the match, or None when there is no match.
LineMatch(ln, label) ==
    LET most == runLength(ln, 1, SpaceCh)
        L    == Len(label)
        ok(j) == /\ j + L <= Len(ln)
                 /\ lower(SubSeq(ln, j + 1, j + L)) = lower(label)
                 /\ wordBoundary(ln, j + L)
                 /\ CaptureAfterSeparators(ln, j + L + 1) # None
        fits == {j \in 0..most : ok(j)}
    IN  IF fits = {} THEN None
        ELSE LET j == CHOOSE x \in fits : \A y \in fits : y <= x
             IN  CaptureAfterSeparators(ln, j + L + 1)

RECURSIVE value_after_label_by_lines(_, _)
value_after_label_by_lines(lines, label) ==
    IF lines = <<>> THEN None
    ELSE LET m == LineMatch(Head(lines), label)
         IN  IF m # None THEN norm(m)
             ELSE value_after_label_by_lines(Tail(lines), label)

\* lines = [norm(ln) for ln in text.splitlines() if ln.strip()]
LinesOf(text) ==
    LET raw  == splitlines(IF text = None THEN <<>> ELSE text)
        kept == SelectSeq(raw, LAMBDA ln : strip(ln) # <<>>)
    IN  Eager([i \in 1..Len(kept) |-> norm(kept[i])])

\* The guards of one (alias, value) pair of a line.
LineGuard(val, v, variants) ==
    \/ norm_label(val) = norm_label(v)
    \/ same_as_any_variant(val, variants)

\* "for v in spec['variants']" from the i-th alias on: the value the loop
\* leaves in found[col_name]
RECURSIVE LineVariants(_, _, _)
LineVariants(lines, spec, i) ==
    IF i > Len(spec.variants) THEN None
    ELSE LET v   == spec.variants[i]
             val == value_after_label_by_lines(lines, v)
         IN  IF /\ val # None
                /\ val # <<>>
                /\ ~LineGuard(val, v, spec.variants)
                /\ VALIDATORS(spec.type, val)
             THEN val
             ELSE LineVariants(lines, spec, i + 1)

\* The body of "for col_name, spec in schema.items()": what found holds for
\* col_name after it.
LineField(lines, col_name) == LineVariants(lines, SchemaOf(col_name), 1)

\* extract_from_lines, for a page whose extract_text() returns
extract_from_lines(page) ==
    LET lines == LinesOf(page.text)
    IN  Eager([k \in Columns |-> LineField(lines, k)])

(***************************************************************************)
(* The inputs of the model: what pdfplumber may hand to the program.       *)
(***************************************************************************)
\* what page.extract_tables() may return
TablesFull ==
    << <<
        \* ['Item', 'Value']
        <<<<"I","t","e","m">>, <<"V","a","l","u","e">>>>,
        \* ['Site Number', '101']
        <<<<"S","i","t","e"," ","N","u","m","b","e","r">>, <<"1","0","1">>>>,
        \* ['Subject', 'SCR-0001']
        <<<<"S","u","b","j","e","c","t">>, <<"S","C","R","-","0","0","0","1">>>>,
        \* ['Birth Year', '1999']
        <<<<"B","i","r","t","h"," ","Y","e","a","r">>, <<"1","9","9","9">>>>,
        \* ['Age', '2 Years']
        <<<<"A","g","e">>, <<"2"," ","Y","e","a","r","s">>>>,
        \* ['Sex Reported at Birth', 'Female']
        <<<<"S","e","x"," ","R","e","p","o","r","t","e","d"," ","a","t"," ","B","i","r","t","h">>, <<"F","e","m","a","l","e">>>>,
        \* ['First Informed Consent Date', '12-Jun-2025']
        <<<<"F","i","r","s","t"," ","I","n","f","o","r","m","e","d"," ","C","o","n","s","e","n","t"," ","D","a","t","e">>, <<"1","2","-","J","u","n","-","2","0","2","5">>>>,
        \* ['Randomization/Allocation Date', '2025-06-12']
        <<<<"R","a","n","d","o","m","i","z","a","t","i","o","n","/","A","l","l","o","c","a","t","i","o","n"," ","D","a","t","e">>, <<"2","0","2","5","-","0","6","-","1","2">>>>,
        \* ['Randomization/Allocation Number', '77']
        <<<<"R","a","n","d","o","m","i","z","a","t","i","o","n","/","A","l","l","o","c","a","t","i","o","n"," ","N","u","m","b","e","r">>, <<"7","7">>>>,
        \* ['Cohort', 'B']
        <<<<"C","o","h","o","r","t">>, <<"B">>>>,
        \* ['Date of Component ID Assignment', '01/02/2025']
        <<<<"D","a","t","e"," ","o","f"," ","C","o","m","p","o","n","e","n","t"," ","I","D"," ","A","s","s","i","g","n","m","e","n","t">>, <<"0","1","/","0","2","/","2","0","2","5">>>>,
        \* ['Component ID', '123']
        <<<<"C","o","m","p","o","n","e","n","t"," ","I","D">>, <<"1","2","3">>>> >> >>

TablesPart ==
    << <<
        \* ['Component ID', '123']
        <<<<"C","o","m","p","o","n","e","n","t"," ","I","D">>, <<"1","2","3">>>>,
        \* ['Site No:', '202']
        <<<<"S","i","t","e"," ","N","o",":">>, <<"2","0","2">>>>,
        \* ['Subject ID', 'Subject ID']
        <<<<"S","u","b","j","e","c","t"," ","I","D">>, <<"S","u","b","j","e","c","t"," ","I","D">>>>,
        \* ['Cohort', 'Cohort :']
        <<<<"C","o","h","o","r","t">>, <<"C","o","h","o","r","t"," ",":">>>> >> >>

TablesAlt ==
    << <<
        \* ['Cohort', 'N/A']
        <<<<"C","o","h","o","r","t">>, <<"N","/","A">>>>,
        \* ['Subject ID', 'Subject']
        <<<<"S","u","b","j","e","c","t"," ","I","D">>, <<"S","u","b","j","e","c","t">>>>,
        \* [None, 'Age', '', '2 Years', None]
        <<None, <<"A","g","e">>, <<>>, <<"2"," ","Y","e","a","r","s">>, None>>,
        \* ['Birth Year', '1899']
        <<<<"B","i","r","t","h"," ","Y","e","a","r">>, <<"1","8","9","9">>>>,
        \* ['Sex Reported at Birth']
        <<<<"S","e","x"," ","R","e","p","o","r","t","e","d"," ","a","t"," ","B","i","r","t","h">>>> >> >>

\* what page.extract_text() may return
TextFull ==
        \* 'Site ID: 303'
        <<"S","i","t","e"," ","I","D",":"," ","3","0","3","NL">>
        \o
        \* 'Subject ID: SCR-0002'
        <<"S","u","b","j","e","c","t"," ","I","D",":"," ","S","C","R","-","0","0","0","2","NL">>
        \o
        \* 'YOB 2001'
        <<"Y","O","B"," ","2","0","0","1","NL">>
        \o
        \* 'Age: 11 Months'
        <<"A","g","e",":"," ","1","1"," ","M","o","n","t","h","s","NL">>
        \o
        \* 'Sex Reported at Birth: Male'
        <<"S","e","x"," ","R","e","p","o","r","t","e","d"," ","a","t"," ","B","i","r","t","h",":"," ","M","a","l","e","NL">>
        \o
        \* 'Informed Consent Date: 1/2/25'
        <<"I","n","f","o","r","m","e","d"," ","C","o","n","s","e","n","t"," ","D","a","t","e",":"," ","1","/","2","/","2","5","NL">>
        \o
        \* 'Randomization Date: 13-Sept-2025'
        <<"R","a","n","d","o","m","i","z","a","t","i","o","n"," ","D","a","t","e",":"," ","1","3","-","S","e","p","t","-","2","0","2","5","NL">>
        \o
        \* 'Allocation Number: 88'
        <<"A","l","l","o","c","a","t","i","o","n"," ","N","u","m","b","e","r",":"," ","8","8","NL">>
        \o
        \* 'Cohort Assignment: C'
        <<"C","o","h","o","r","t"," ","A","s","s","i","g","n","m","e","n","t",":"," ","C","NL">>
        \o
        \* 'Component ID Assignment Date: 2025/07/01'
        <<"C","o","m","p","o","n","e","n","t"," ","I","D"," ","A","s","s","i","g","n","m","e","n","t"," ","D","a","t","e",":"," ","2","0","2","5","/","0","7","/","0","1","NL">>
        \o
        \* 'ComponentID: 456'
        <<"C","o","m","p","o","n","e","n","t","I","D",":"," ","4","5","6">>

TextPart ==
        \* 'Site Number: 303'
        <<"S","i","t","e"," ","N","u","m","b","e","r",":"," ","3","0","3","NL">>
        \o
        \* 'Age: unknown'
        <<"A","g","e",":"," ","u","n","k","n","o","w","n","NL">>
        \o
        \* 'Age: 5'
        <<"A","g","e",":"," ","5","NL">>
        \o
        \* 'Cohort: Cohort Assignment'
        <<"C","o","h","o","r","t",":"," ","C","o","h","o","r","t"," ","A","s","s","i","g","n","m","e","n","t","NL">>
        \o
        \* 'Subject: Subject ID'
        <<"S","u","b","j","e","c","t",":"," ","S","u","b","j","e","c","t"," ","I","D","NL">>
        \o
        \* 'Sex Reported at Birth  -'
        <<"S","e","x"," ","R","e","p","o","r","t","e","d"," ","a","t"," ","B","i","r","t","h"," "," ","-","NL">>
        \o
        \* 'Component ID 456'
        <<"C","o","m","p","o","n","e","n","t"," ","I","D"," ","4","5","6">>

\* the message of an exception the library raises
Boom == <<"b","o","o","m">>
Reasons == { Boom, <<>> }

\* (tables_raise, tables) and (text_raise, text) of a page
TablePool ==
    { <<FALSE, TablesFull>>, <<FALSE, TablesPart>>, <<FALSE, TablesAlt>>,
      <<TRUE, <<>>>> }
TextPool ==
    { <<None, None>>, <<None, TextFull>>, <<None, TextPart>>, <<Boom, None>> }
PagePool ==
    { Page(tb[1], tb[2], tx[1], tx[2]) : tb \in TablePool, tx \in TextPool }

\* extract_from_tables and extract_from_lines of the pages of the model, each
\* evaluated once
TableValues ==
    Eager([tb \in TablePool |-> extract_from_tables(Page(tb[1], tb[2], None, None))])
LineValues ==
    Eager([tx \in {x \in TextPool : x[1] = None} |->
              extract_from_lines(Page(TRUE, <<>>, None, tx[2]))])

\* extract_from_tables(page)
TablesOn(page) == TableValues[<<page.tables_raise, page.tables>>]
\* extract_from_lines(page)
LinesOn(page) == LineValues[<<page.text_raise, page.text>>]

\* A document: the exception pdfplumber.open (or pdf.pages) raises, or None,
\* and the pages it has otherwise.
Doc(open_raise, pages) == [open_raise |-> open_raise, pages |-> pages]

\* all sequences of at most n elements of S
SeqsUpTo(S, n) == UNION {[1..m -> S] : m \in 0..n}

DocPool ==
    {Doc(r, <<>>) : r \in Reasons} \cup {Doc(None, ps) : ps \in SeqsUpTo(PagePool, MaxPages)}

\* the documents of the batches of several documents
SmallDocPool ==
    { Doc(Boom, <<>>),
      Doc(None, <<Page(FALSE, TablesFull, None, None)>>),
      Doc(None, <<Page(FALSE, TablesPart, None, TextPart),
                  Page(FALSE, TablesAlt, Boom, None)>>),
      Doc(None, <<Page(TRUE, <<>>, None, TextPart)>>) }

\* pdf_file.name of the i-th file of the sorted listing
DigitSeq == <<"1","2","3","4","5","6","7","8","9">>
NameOf(i) == <<DigitSeq[i], ".", "p", "d", "f">>

\* sorted(INPUT_DIR.glob("*.pdf")): the files by name, each with what it holds
Batches ==
    {<<>>} \cup {<<d>> : d \in DocPool}
           \cup UNION {[1..n -> SmallDocPool] : n \in 2..MaxDocs}

(***************************************************************************)
(* The state of the program.                                               *)
(***************************************************************************)
VARIABLES
    pdf_files,  \* main: the sorted input documents
    pc,         \* where the program stands
    records,    \* main: the rows appended so far
    result,     \* extract_fields_from_pdf: the document's result
    exc,        \* extract_fields_from_pdf: the exception its handler caught, or None
    page_no,    \* extract_fields_from_pdf: the page the loop stands at
    tbl_vals,   \* extract_fields_from_pdf: what extract_from_tables returned
    line_vals,  \* extract_fields_from_pdf: what extract_from_lines returned
    visited,    \* the calls made on the pages of the document, in order
    df,         \* main: the assembled table
    call        \* one call of a pure function: its name, arguments and results

vars == <<pdf_files, pc, records, result, exc, page_no, tbl_vals, line_vals,
          visited, df, call>>

NoCall == [fn |-> "", args |-> <<>>, rets |-> <<>>]

\* the document extract_fields_from_pdf works on
CurDoc == pdf_files[Len(records) + 1]
CurPage == CurDoc.pages[page_no]

SOURCE_PDF == "_source_pdf"

(***************************************************************************)
(* Master extractor por PDF                                                *)
(***************************************************************************)
\* all(result[k] is not None for k in schema.keys())
AllResolved(res) == \A k \in Columns : res[k] # None

\* for k, v in tbl_vals.items(): if v and result[k] is None: result[k] = v
MergeTables(res, vals) ==
    Eager([k \in Columns |->
        IF vals[k] # None /\ vals[k] # <<>> /\ res[k] = None THEN vals[k] ELSE res[k]])

\* MergeLines without "result[k] is None": a line's value overwrites
MergeLinesOverwrite(res, vals) ==
    Eager([k \in Columns |->
        IF vals[k] # None /\ vals[k] # <<>> THEN vals[k] ELSE res[k]])

\* for k, v in line_vals.items(): if v and result[k] is None: result[k] = v
MergeLines(res, vals) ==
    Eager([k \in Columns |->
        IF vals[k] # None /\ vals[k] # <<>> /\ res[k] = None THEN vals[k] ELSE res[k]])

\* f"ERROR: {e}"
ErrorText(e) == <<"E","R","R","O","R",":"," ">> \o e

\* Handler that returns an otherwise-empty result
HandlerFresh(res, e) == [AllNone EXCEPT !["Component ID"] = ErrorText(e)]

\* except Exception as e: result["Component ID"] = f"ERROR: {e}"
Handler(res, e) == [res EXCEPT !["Component ID"] = ErrorText(e)]

\* LoopEnds without the break: every page is visited
LoopEndsNoBreak(res, doc, n) == n >= Len(doc.pages)

\* "if all(...): break", and the end of "for page in pdf.pages"
LoopEnds(res, doc, n) == AllResolved(res) \/ n >= Len(doc.pages)

\* NewResult with one dictionary shared by all calls: a call starts from what
\* the call before it left
NewResultShared(recs) ==
    IF recs = <<>> THEN AllNone
    ELSE Eager([k \in Columns |-> recs[Len(recs)][k]])

\* result = {k: None for k in schema.keys()}: the result a call starts from,
\* whatever the rows recs of the calls before it hold
NewResult(recs) == AllNone

Init ==
    /\ pdf_files \in Batches
    /\ pc = "main"
    /\ records = <<>>
    /\ result = AllNone
    /\ exc = None
    /\ page_no = 0
    /\ tbl_vals = AllNone
    /\ line_vals = AllNone
    /\ visited = <<>>
    /\ df = <<>>
    /\ call = NoCall

\* main: "if not pdf_files: ... return"
NoPdfs ==
    /\ pc = "main"
    /\ pdf_files = <<>>
    /\ pc' = "done"
    /\ UNCHANGED <<pdf_files, records, result, exc, page_no, tbl_vals, line_vals,
                   visited, df, call>>

\* main: the loop is entered
StartLoop ==
    /\ pc = "main"
    /\ pdf_files # <<>>
    /\ pc' = "loop"
    /\ UNCHANGED <<pdf_files, records, result, exc, page_no, tbl_vals, line_vals,
                   visited, df, call>>

\* main: "for pdf_file in pdf_files" calls extract_fields_from_pdf, which
\* starts from an empty result
CallExtract ==
    /\ pc = "loop"
    /\ Len(records) < Len(pdf_files)
    /\ result' = NewResult(records)
    /\ exc' = None
    /\ page_no' = 0
    /\ tbl_vals' = AllNone
    /\ line_vals' = AllNone
    /\ visited' = <<>>
    /\ pc' = "open"
    /\ UNCHANGED <<pdf_files, records, df, call>>

\* extract_fields_from_pdf: pdfplumber.open(pdf_path) and pdf.pages raise
OpenFails ==
    /\ pc = "open"
    /\ CurDoc.open_raise # None
    /\ exc' = CurDoc.open_raise
    /\ result' = Handler(result, CurDoc.open_raise)
    /\ pc' = "return"
    /\ UNCHANGED <<pdf_files, records, page_no, tbl_vals, line_vals, visited, df, call>>

\* extract_fields_from_pdf: the document opens; the loop over its pages starts
\* (or ends at once: no pages)
Open ==
    /\ pc = "open"
    /\ CurDoc.open_raise = None
    /\ IF CurDoc.pages = <<>>
       THEN pc' = "return" /\ page_no' = page_no
       ELSE pc' = "tables" /\ page_no' = 1
    /\ UNCHANGED <<pdf_files, records, result, exc, tbl_vals, line_vals, visited, df, call>>

\* extract_fields_from_pdf: "1) Tablas primero"
TablesFirst ==
    /\ pc = "tables"
    /\ tbl_vals' = TablesOn(CurPage)
    /\ result' = MergeTables(result, tbl_vals')
    /\ visited' = Append(visited, <<page_no, "extract_tables">>)
    /\ pc' = "lines"
    /\ UNCHANGED <<pdf_files, records, exc, page_no, line_vals, df, call>>

\* extract_fields_from_pdf: "2) Luego líneas", where page.extract_text() raises:
\* the exception leaves the loop and reaches the handler
LinesRaise ==
    /\ pc = "lines"
    /\ CurPage.text_raise # None
    /\ visited' = Append(visited, <<page_no, "extract_text">>)
    /\ exc' = CurPage.text_raise
    /\ result' = Handler(result, CurPage.text_raise)
    /\ pc' = "return"
    /\ UNCHANGED <<pdf_files, records, page_no, tbl_vals, line_vals, df, call>>

\* extract_fields_from_pdf: "2) Luego líneas" and "Cortar si ya tenemos todos"
ThenLines ==
    /\ pc = "lines"
    /\ CurPage.text_raise = None
    /\ visited' = Append(visited, <<page_no, "extract_text">>)
    /\ line_vals' = LinesOn(CurPage)
    /\ result' = MergeLines(result, line_vals')
    /\ IF LoopEnds(result', CurDoc, page_no)
       THEN pc' = "return" /\ page_no' = page_no
       ELSE pc' = "tables" /\ page_no' = page_no + 1
    /\ UNCHANGED <<pdf_files, records, exc, tbl_vals, df, call>>

\* main: extract_fields_from_pdf returns; the row gets its source and is appended
AppendRecord ==
    /\ pc = "return"
    /\ records' = Append(records,
                     [k \in Columns \cup {SOURCE_PDF} |->
                         IF k = SOURCE_PDF THEN NameOf(Len(records) + 1) ELSE result[k]])
    /\ result' = AllNone
    /\ exc' = None
    /\ pc' = "loop"
    /\ UNCHANGED <<pdf_files, page_no, tbl_vals, line_vals, visited, df, call>>

\* main: df = pd.DataFrame(records, columns=ordered_cols)
DataFrame ==
    /\ pc = "loop"
    /\ Len(records) = Len(pdf_files)
    /\ df' = records
    /\ pc' = "sanitize"
    /\ UNCHANGED <<pdf_files, records, result, exc, page_no, tbl_vals, line_vals,
                   visited, call>>

(***************************************************************************)
(* Limpieza final                                                          *)
(***************************************************************************)
_key(s) ==
    IF s = None THEN <<>>
    ELSE lower(strip(subTrailing(s, {":"} \cup SpaceCh)))

NULL_TOKENS ==
    { <<"n","o"," ","v","a","l","u","e"," ","t","o"," ","d","i","s","p","l","a","y">>,
      <<"n","/","a">>, <<"n","a">>, <<"-">>, <<"-","-">>, <<"n","u","l","l">> }

\* bad_keys = {_key(col)} | {_key(v) for v in spec["variants"]}
bad_keys(col) ==
    LET spec == SchemaOf(col)
    IN  {_key(spec.chars)} \cup {_key(spec.variants[i]) : i \in 1..Len(spec.variants)}

\* bad_keys of each column, evaluated once
BadKeys == Eager([col \in Columns |-> bad_keys(col)])

\* mask_same_as_label, applied to one cell
MaskSameAsLabel(col, v) ==
    IF v # None /\ _key(v) \in BadKeys[col] THEN None ELSE v

\* MaskNullTokens without ".str.lower()"
MaskNullTokensCaseSensitive(v) ==
    IF v # None /\ strip(v) \in NULL_TOKENS THEN None ELSE v

\* mask_null_tokens, applied to one cell
MaskNullTokens(v) ==
    IF v # None /\ lower(strip(v)) \in NULL_TOKENS THEN None ELSE v

\* the two masks of the loop's body, applied to one cell of column col
SanitizeCell(col, v) == MaskNullTokens(MaskSameAsLabel(col, v))

\* main: "for col, spec in FIELD_SCHEMA.items()"
Sanitize ==
    /\ pc = "sanitize"
    /\ df' = [i \in 1..Len(df) |->
                [k \in Columns \cup {SOURCE_PDF} |->
                    IF k \in Columns THEN SanitizeCell(k, df[i][k]) ELSE df[i][k]]]
    /\ pc' = "export"
    /\ UNCHANGED <<pdf_files, records, result, exc, page_no, tbl_vals, line_vals,
                   visited, call>>

\* main: the table is written to OUTPUT_XLSX
Export ==
    /\ pc = "export"
    /\ pc' = "done"
    /\ UNCHANGED <<pdf_files, records, result, exc, page_no, tbl_vals, line_vals,
                   visited, df, call>>

Next ==
    \/ NoPdfs
    \/ StartLoop
    \/ CallExtract
    \/ OpenFails
    \/ Open
    \/ TablesFirst
    \/ LinesRaise
    \/ ThenLines
    \/ AppendRecord
    \/ DataFrame
    \/ Sanitize
    \/ Export

Spec == Init /\ [][Next]_vars

(***************************************************************************)
(* The pure functions, called on generated arguments.                      *)
(***************************************************************************)
NormAlphabet == {"a", "A", " ", "TAB", "NBSP", ":"}
LineAlphabet == {":", " ", "5", "-", "x"}

AgeLabel == <<"A","g","e">>
CohortLabel == <<"C","o","h","o","r","t">>

\* a line: a label, as a document may spell it, and what follows it
GeneratedLines ==
    { prefix \o suffix :
        prefix \in {AgeLabel, <<"a","g","e">>, CohortLabel},
        suffix \in SeqsUpTo(LineAlphabet, MaxLen) }

\* a page's text: one generated line that starts with "Age", alone or after a
\* line whose value no validator of the field accepts
GeneratedTexts ==
    { first \o AgeLabel \o suffix :
        first \in {<<>>, <<"A","g","e",":"," ","u","n","k","n","o","w","n","NL">>},
        suffix \in SeqsUpTo(LineAlphabet, MaxLen) }

Calls ==
    {[fn |-> "norm_label", args |-> <<s>>, rets |-> <<>>] :
        s \in SeqsUpTo(NormAlphabet, MaxLen)}
    \cup
    {[fn |-> "value_after_label_by_lines", args |-> <<<<ln>>, label>>, rets |-> <<>>] :
        ln \in GeneratedLines, label \in {AgeLabel, CohortLabel}}
    \cup
    {[fn |-> "extract_from_lines", args |-> <<text>>, rets |-> <<>>] :
        text \in GeneratedTexts}

InitFn ==
    /\ pdf_files = <<>>
    /\ pc = "call"
    /\ records = <<>>
    /\ result = AllNone
    /\ exc = None
    /\ page_no = 0
    /\ tbl_vals = AllNone
    /\ line_vals = AllNone
    /\ visited = <<>>
    /\ df = <<>>
    /\ call \in Calls

\* norm_label is applied to the argument, and then to what it returned
CallNormLabel ==
    /\ pc = "call"
    /\ call.fn = "norm_label"
    /\ Len(call.rets) < 2
    /\ call' = [call EXCEPT !.rets =
                   Append(@, norm_label(IF @ = <<>> THEN call.args[1] ELSE @[Len(@)]))]
    /\ UNCHANGED <<pdf_files, pc, records, result, exc, page_no, tbl_vals, line_vals,
                   visited, df>>

CallValueAfterLabel ==
    /\ pc = "call"
    /\ call.fn = "value_after_label_by_lines"
    /\ call.rets = <<>>
    /\ call' = [call EXCEPT !.rets =
                   <<value_after_label_by_lines(call.args[1], call.args[2])>>]
    /\ UNCHANGED <<pdf_files, pc, records, result, exc, page_no, tbl_vals, line_vals,
                   visited, df>>

CallExtractFromLines ==
    /\ pc = "call"
    /\ call.fn = "extract_from_lines"
    /\ call.rets = <<>>
    /\ call' = [call EXCEPT !.rets =
                   <<extract_from_lines(Page(TRUE, <<>>, None, call.args[1]))>>]
    /\ UNCHANGED <<pdf_files, pc, records, result, exc, page_no, tbl_vals, line_vals,
                   visited, df>>

NextFn ==
    \/ CallNormLabel
    \/ CallValueAfterLabel
    \/ CallExtractFromLines

SpecFn == InitFn /\ [][NextFn]_vars

(***************************************************************************)
(* extract_fields_from_pdf as a function of one document: what it returns  *)
(* for the document, whatever else the batch holds.                        *)
(***************************************************************************)
RECURSIVE PagesFrom(_, _, _)
PagesFrom(doc, n, res) ==
    IF n > Len(doc.pages) THEN res
    ELSE LET page == doc.pages[n]
             r1   == MergeTables(res, TablesOn(page))
             r2   == MergeLines(r1, LinesOn(page))
         IN  IF page.text_raise # None THEN Handler(r1, page.text_raise)
             ELSE IF AllResolved(r2) THEN r2
             ELSE PagesFrom(doc, n + 1, r2)

extract_fields_from_pdf(doc) ==
    IF doc.open_raise # None THEN Handler(AllNone, doc.open_raise)
    ELSE PagesFrom(doc, 1, AllNone)

(***************************************************************************)
(* The properties.                                                         *)
(***************************************************************************)
\* the keys of a field's aliases, evaluated once
AliasKeys ==
    Eager([k \in Columns |->
        {norm_label(SchemaOf(k).variants[i]) : i \in 1..Len(SchemaOf(k).variants)}])

OtherColumns == Columns \ {"Component ID"}

\* the rows extract_from_tables sees on the page
PageRows(page) == IF page.tables_raise THEN <<>> ELSE RowsOf(page.tables)

HasRow(page, row) == \E i \in 1..Len(PageRows(page)) : PageRows(page)[i] = row

\* C1: in extract_fields_from_pdf a field that holds a value obtained on a
\* page keeps that value until the function returns.
C1_WriteOnce ==
    [][(pc \in {"tables", "lines"} =>
          \A k \in Columns : result[k] # None => result'[k] = result[k])]_vars

\* C2: norm_label(norm_label(s)) = norm_label(s) for every string s.
C2_Idempotent ==
    (call.fn = "norm_label" /\ Len(call.rets) = 2) => call.rets[2] = call.rets[1]

\* C3: neither extractor gives a field a value whose norm_label key is the
\* key of one of the field's aliases (the key of a row's matching label cell,
\* and of a line's matched alias, is one of them).
C3_SelfReferenceGuard ==
    /\ pc = "lines" =>
          \A k \in Columns :
              tbl_vals[k] # None => norm_label(tbl_vals[k]) \notin AliasKeys[k]
    /\ (pc \in {"tables", "return"} /\ exc = None) =>
          \A k \in Columns :
              line_vals[k] # None => norm_label(line_vals[k]) \notin AliasKeys[k]

SubjectIdCell == <<"S","u","b","j","e","c","t"," ","I","D">>

\* A page with the row ["Subject ID", "Subject ID"] leaves Subject unset, and
\* a text with the line "Subject: Subject ID" does too.
C3_Witness ==
    /\ pc = "return"
    /\ exc = None
    /\ page_no = 1
    /\ HasRow(CurPage, <<SubjectIdCell, SubjectIdCell>>)
    /\ CurPage.text = TextPart
    /\ tbl_vals["Subject"] = None
    /\ line_vals["Subject"] = None
    /\ tbl_vals["Component ID"] # None

\* the call the n-th call on the pages of a document has to be
ExpectedCall(n) ==
    <<(n + 1) \div 2, IF n % 2 = 1 THEN "extract_tables" ELSE "extract_text">>

\* C4: the pages are visited in document order, tables before text, and once
\* every field holds a value after a page, no page after it is visited.
C4_EarlyTermination ==
    [][visited' # visited =>
          \/ pc = "loop" /\ visited' = <<>>
          \/ /\ visited' = Append(visited, ExpectedCall(Len(visited) + 1))
             /\ (AllResolved(result) => pc = "lines")]_vars

\* Every field is resolved on page 1 of a document of more pages, and only
\* page 1 was visited.
C4_Witness ==
    /\ pc = "return"
    /\ exc = None
    /\ Len(CurDoc.pages) >= 2
    /\ AllResolved(result)
    /\ visited = <<ExpectedCall(1), ExpectedCall(2)>>

\* C5: the table has one row per input document, in input order; the row of a
\* document that fails to open holds a string that starts with "ERROR:" under
\* Component ID; the row of every other document is the row the document
\* gets on its own.
C5_FailureIsolation ==
    pc \in {"sanitize", "export", "done"} =>
        /\ Len(df) = Len(pdf_files)
        /\ \A i \in 1..Len(df) :
              /\ df[i][SOURCE_PDF] = NameOf(i)
              /\ pdf_files[i].open_raise # None =>
                    startswith(df[i]["Component ID"], <<"E","R","R","O","R",":">>)
              /\ pdf_files[i].open_raise = None =>
                    \A k \in Columns :
                        df[i][k] =
                            IF pc = "sanitize"
                            THEN extract_fields_from_pdf(pdf_files[i])[k]
                            ELSE SanitizeCell(k, extract_fields_from_pdf(pdf_files[i])[k])

\* Three documents, the second of which fails to open.
C5_Witness ==
    /\ pc = "done"
    /\ Len(pdf_files) = 3
    /\ pdf_files[1].open_raise = None
    /\ pdf_files[2].open_raise # None
    /\ pdf_files[3].open_raise = None
    /\ \E k \in Columns : df[1][k] # None
    /\ \E k \in Columns : df[3][k] # None

\* C6: on a page, a field that is unresolved takes the value the table
\* extractor returns for it, and the line extractor's value of the same page
\* is used only for a field the table extractor returned none for.
C6_TableThenLine ==
    [][/\ pc = "tables" =>
             \A k \in Columns :
                 (result[k] = None /\ tbl_vals'[k] # None) => result'[k] = tbl_vals'[k]
       /\ (pc = "lines" /\ exc' = None) =>
             \A k \in Columns :
                 /\ tbl_vals[k] # None => result'[k] = result[k]
                 /\ result'[k] # result[k] =>
                       (tbl_vals[k] = None /\ result'[k] = line_vals'[k])
      ]_vars

\* On the first page the table and the text offer different values for a
\* field, and the result holds the table's; for another field only the text
\* offers a value, and the result holds it.
C6_Witness ==
    /\ pc = "return"
    /\ exc = None
    /\ page_no = 1
    /\ \E k \in Columns :
          /\ tbl_vals[k] # None
          /\ line_vals[k] # None
          /\ line_vals[k] # tbl_vals[k]
          /\ result[k] = tbl_vals[k]
    /\ \E k \in Columns :
          /\ tbl_vals[k] = None
          /\ line_vals[k] # None
          /\ result[k] = line_vals[k]

\* the reduction the sanitizer's contract names: lowercase, trailing colons
\* and whitespace stripped
Reduced(s) == lower(dropTrailing(s, {":"} \cup SpaceCh))

\* the reduced canonical name and aliases of each column, evaluated once
ForbiddenKeys ==
    Eager([k \in Columns |->
        {Reduced(SchemaOf(k).chars)}
        \cup {Reduced(SchemaOf(k).variants[i]) : i \in 1..Len(SchemaOf(k).variants)}])

NullTokens ==
    { <<"n","o"," ","v","a","l","u","e"," ","t","o"," ","d","i","s","p","l","a","y">>,
      <<"n","/","a">>, <<"n","a">>, <<"-">>, <<"-","-">>, <<"n","u","l","l">> }

\* C7: after the sanitizing pass a cell of a schema column is null if its
\* reduced value is the reduced name or an alias of the column, or if its
\* trimmed lowercase value is a null token; every other cell is unchanged.
C7_Sanitizer ==
    pc \in {"export", "done"} =>
        \A i \in 1..Len(df) : \A k \in Columns :
            LET v == records[i][k]
            IN  df[i][k] =
                    IF /\ v # None
                       /\ \/ Reduced(v) \in ForbiddenKeys[k]
                          \/ lower(strip(v)) \in NullTokens
                    THEN None
                    ELSE v

\* A row with a cell that reduces to its column's name and a cell that is a
\* null token, both nulled, and a cell that is kept.
C7_Witness ==
    /\ pc = "done"
    /\ \E i \in 1..Len(df) :
          /\ records[i]["Cohort"] = <<"C","o","h","o","r","t"," ",":">>
          /\ df[i]["Cohort"] = None
          /\ records[i]["Sex Reported at Birth"] = <<"-">>
          /\ df[i]["Sex Reported at Birth"] = None
          /\ records[i]["Component ID"] = <<"1","2","3">>
          /\ df[i]["Component ID"] = <<"1","2","3">>

\* The candidates the contract of the line matching allows line ln to give
\* alias v: ln begins with v, ignoring case, then come one or more colons or
\* whitespace characters, then a remainder that is not empty.
AllowedCandidates(ln, v) ==
    LET L == Len(v)
    IN  IF Len(ln) >= L /\ lower(SubSeq(ln, 1, L)) = lower(v)
        THEN { norm(SubSeq(ln, L + n + 1, Len(ln))) :
                 n \in {m \in 1..runLength(ln, L + 1, {":"} \cup SpaceCh) :
                           L + m < Len(ln)} }
        ELSE {}

\* C8: value_after_label_by_lines returns a candidate for alias v only from a
\* line that begins with v followed by at least one colon or whitespace
\* character and a non-empty remainder, and the candidate is that remainder,
\* normalized.
C8_LineMatching ==
    (/\ call.fn = "value_after_label_by_lines"
     /\ call.rets # <<>>
     /\ call.rets[1] # None) =>
        \E i \in 1..Len(call.args[1]) :
            call.rets[1] \in AllowedCandidates(call.args[1][i], call.args[2])

\* C9 as stated: when an exception reaches the handler, the result holds
\* "ERROR: <reason>" under Component ID and every other field is unset.
C9_ErrorSentinelOnly ==
    (pc = "return" /\ exc # None) =>
        /\ result["Component ID"] = ErrorText(exc)
        /\ \A k \in OtherColumns : result[k] = None

\* C9, amended: when an exception reaches the handler, the result holds
\* "ERROR: <reason>" under Component ID; every other field keeps what it held
\* when the exception was raised, which is unset for all of them when the
\* document failed to open.
C9_ErrorSentinel ==
    /\ [](pc = "return" /\ exc # None =>
             /\ result["Component ID"] = ErrorText(exc)
             /\ visited = <<>> => \A k \in OtherColumns : result[k] = None)
    /\ [][(exc = None /\ exc' # None) =>
             (\A k \in OtherColumns : result'[k] = result[k])]_vars

\* An exception on a page after values were found: the values are kept.
C9_Witness ==
    /\ pc = "return"
    /\ exc # None
    /\ visited # <<>>
    /\ result["Component ID"] = ErrorText(exc)
    /\ \E k \in OtherColumns : result[k] # None

\* C10: if a line of the page begins with an alias of a field, followed by
\* colons or whitespace and a remainder that is no label of the field and
\* that the field's validator accepts, extract_from_lines returns a value for
\* the field.
C10_LineCompleteness ==
    (call.fn = "extract_from_lines" /\ call.rets # <<>>) =>
        \A k \in Columns :
            LET spec  == SchemaOf(k)
                lines == LinesOf(call.args[1])
            IN  (\E i \in 1..Len(lines) : \E j \in 1..Len(spec.variants) :
                    \E c \in AllowedCandidates(lines[i], spec.variants[j]) :
                        /\ norm_label(c) \notin AliasKeys[k]
                        /\ VALIDATORS(spec.type, c))
                => call.rets[1][k] # None

=============================================================================
